---- MODULE Spec2Model ----
(***************************************************************************)
(* A model of backend/discord_digest_bot_ollama.py: the message collector, *)
(* the unanswered-question heuristic, and the two pipelines (the periodic  *)
(* digest_task and the /summarize command) as coroutines of one asyncio    *)
(* event loop.  An action is the code a coroutine runs between two points  *)
(* where it gives the loop back (an await on the network).                 *)
(***************************************************************************)
EXTENDS Integers, Sequences, FiniteSets, TLC

\* ------------------------------------------------------------------------
\* Bounds of the model
\* ------------------------------------------------------------------------
\* length of the free part of an input of find_unanswered_questions
MaxLen == 3
\* the limit= of channel.history (200 in the source), scaled down
HistoryLimit == 2
\* messages one history request returns (100 in discord.py), scaled down
BatchSize == 1
\* DIGEST_INTERVAL_MINUTES (1440 by default), in model time units
DIGEST_INTERVAL_MINUTES == 2
\* timedelta(hours=1), in model time units
HourLookback == 1
\* the latest wall-clock reading of the model
MaxNow == 3
\* messages per channel in the guilds the collector is checked on
MaxChanLen == 3

\* ------------------------------------------------------------------------
\* Program constants
\* ------------------------------------------------------------------------
\* unanswered[:5]
MaxShown == 5

\* ------------------------------------------------------------------------
\* Data
\* ------------------------------------------------------------------------
\* msg.reference is None
NoRef == 0

\* a message body is a sequence of characters
Spc == " "
QMark == "?"
Plain == <<"a">>
Question == <<Spc, QMark, Spc>>
Contents == {Plain, Question}

Min(a, b) == IF a < b THEN a ELSE b

\* a discord.Message, as far as the program reads it
Msg(id, ch, bot, content, t, ref) ==
    [id |-> id, channel |-> ch, bot |-> bot,
     author |-> IF bot THEN "bot" ELSE "user",
     content |-> content, created_at |-> t, reference |-> ref]

\* ------------------------------------------------------------------------
\* str.strip and the "in" test on strings
\* ------------------------------------------------------------------------
RECURSIVE lstrip(_)
lstrip(s) ==
    IF s = <<>> THEN s
    ELSE IF Head(s) = Spc THEN lstrip(Tail(s)) ELSE s

RECURSIVE rstrip(_)
rstrip(s) ==
    IF s = <<>> THEN s
    ELSE IF s[Len(s)] = Spc THEN rstrip(SubSeq(s, 1, Len(s) - 1)) ELSE s

strip(s) == rstrip(lstrip(s))

Contains(s, c) == \E k \in 1..Len(s) : s[k] = c

\* ------------------------------------------------------------------------
\* find_unanswered_questions
\* ------------------------------------------------------------------------
\* a mutant: replies are looked for only after the question
has_reply_after(msgs, msg, k) ==
    \E j \in 1..Len(msgs) :
        /\ msgs[j].reference # NoRef
        /\ msgs[j].reference = msg.id
        /\ \E p \in 1..Len(msgs) : p < j /\ msgs[p] = msg

\* the inner loop: for other in messages, from position k on, with its break
RECURSIVE has_reply_loop(_, _, _)
has_reply_loop(msgs, msg, k) ==
    IF k > Len(msgs) THEN FALSE
    ELSE IF msgs[k].reference # NoRef /\ msgs[k].reference = msg.id THEN TRUE
    ELSE has_reply_loop(msgs, msg, k + 1)

\* the test of line 106
is_question(msg) ==
    /\ Contains(strip(msg.content), QMark)
    /\ msg.reference = NoRef
    /\ ~msg.bot

\* the outer loop: for msg in messages, from position k on
RECURSIVE find_loop(_, _, _)
find_loop(msgs, k, found) ==
    IF k > Len(msgs) THEN found
    ELSE LET msg == msgs[k]
         IN  IF is_question(msg) /\ ~has_reply_loop(msgs, msg, 1)
             THEN find_loop(msgs, k + 1, Append(found, msg))
             ELSE find_loop(msgs, k + 1, found)

find_unanswered_questions(msgs) == find_loop(msgs, 1, <<>>)

\* ------------------------------------------------------------------------
\* State
\* ------------------------------------------------------------------------
VARIABLES
    guild,        \* the guild: id and text_channels, each with its messages
    CHANNEL_IDS,  \* the allow-list setting: None or its comma-separated entries
    inv,          \* per coroutine: its position, locals and what it has sent
    messages,     \* the argument of a direct call of find_unanswered_questions
    questions,    \* the result of that call
    fpc           \* the position of that call

vars == <<guild, CHANNEL_IDS, inv, messages, questions, fpc>>

\* the coroutines of the event loop: the tasks.loop body and one /summarize
Commands == {"cmd"}
Invocations == {"task"} \cup Commands

\* an entry of CHANNEL_IDS that is empty after strip()
Blank == 0

\* datetime.utcnow()
utcnow == MaxNow

\* creation times: before both cutoffs, inside the interval only, recent
Old == MaxNow - DIGEST_INTERVAL_MINUTES
Mid == MaxNow - HourLookback
New == MaxNow

\* the locals of a coroutine that has not run yet
Frame0 ==
    [pc |-> "idle", since |-> 0, ci |-> 0, got |-> 0, failed |-> {},
     aggregate_text |-> <<>>, all_messages |-> <<>>, combined_text |-> <<>>,
     summary |-> <<>>, unanswered |-> <<>>, digest_message |-> <<>>,
     infer_calls |-> 0, sent |-> <<>>, outcome |-> ""]

\* the loop thread is inside the synchronous ollama.chat call
Blocked == \E i \in Invocations : inv[i].pc = "inferring"

\* ------------------------------------------------------------------------
\* collect_messages
\* ------------------------------------------------------------------------
\* channels = [int(cid.strip()) for cid in CHANNEL_IDS.split(",") if cid.strip()]
channels == SelectSeq(CHANNEL_IDS, LAMBDA cid : cid # Blank)

InList(x, s) == \E k \in 1..Len(s) : s[k] = x

\* the test of line 85: the loop goes on to the next channel
skipped(channel) == channels # <<>> /\ ~InList(channel.id, channels)

\* channel.history(after=since, limit=...): the oldest messages after since
history(channel, since, limit) ==
    LET after == SelectSeq(channel.msgs, LAMBDA m : m.created_at > since)
    IN  SubSeq(after, 1, Min(limit, Len(after)))

\* f"[{channel.name}] {msg.author.display_name}: {msg.content}"
line_of(channel, msg) == <<channel.name, msg.author>> \o msg.content

\* "\n".join(lines)
RECURSIVE join(_)
join(lines) ==
    IF lines = <<>> THEN <<>>
    ELSE IF Len(lines) = 1 THEN lines[1]
    ELSE lines[1] \o <<"\n">> \o join(Tail(lines))

\* a mutant: bot messages are collected too
take_all(f, channel, batch, k) ==
    IF k > Len(batch) THEN f
    ELSE [f EXCEPT
             !.aggregate_text = f.aggregate_text \o
                 [j \in 1..Len(batch) |-> line_of(channel, batch[j])],
             !.all_messages = f.all_messages \o batch]

\* the body of the async for, over the messages one request returned
RECURSIVE take(_, _, _, _)
take(f, channel, batch, k) ==
    IF k > Len(batch) THEN f
    ELSE LET msg == batch[k]
         IN  IF msg.bot THEN take(f, channel, batch, k + 1)
             ELSE take([f EXCEPT
                           !.aggregate_text = Append(@, line_of(channel, msg)),
                           !.all_messages = Append(@, msg)],
                       channel, batch, k + 1)

\* the for loop from channel k on, up to the channel whose history is awaited
RECURSIVE next_channel(_)
next_channel(k) ==
    IF k > Len(guild.text_channels) THEN k
    ELSE IF skipped(guild.text_channels[k]) THEN next_channel(k + 1)
    ELSE k

\* ------------------------------------------------------------------------
\* The digest: lines 141-151 and 168-178
\* ------------------------------------------------------------------------
Heading == "Unanswered Questions"

\* s[:n]
slice(s, n) == SubSeq(s, 1, Min(n, Len(s)))

\* the link and the bullet of one question
bullet(q) ==
    [author |-> q.author, url |-> <<guild.id, q.channel, q.id>>,
     content |-> q.content]

\* a mutant: every unanswered question is listed
shown_all(unanswered) == unanswered

\* unanswered[:5]
shown(unanswered) == slice(unanswered, MaxShown)

\* the conditional expression of lines 146-150
unanswered_section(unanswered_lines) ==
    IF unanswered_lines # <<>> THEN <<Heading>> \o unanswered_lines ELSE <<>>

\* from the return of ollama.chat to the await of the send
compose(i, f, content, found) ==
    LET summary == strip(content)
        unanswered == find_unanswered_questions(f.all_messages)
        picked == shown(unanswered)
        unanswered_lines == [k \in 1..Len(picked) |-> bullet(picked[k])]
        digest_message ==
            [header |-> IF i = "task" THEN "Daily Digest" ELSE "Summary",
             summary |-> summary,
             section |-> unanswered_section(unanswered_lines)]
        g == [f EXCEPT !.summary = summary, !.unanswered = unanswered,
                       !.digest_message = digest_message]
    IN  IF i = "task"
        THEN IF found THEN [g EXCEPT !.pc = "send"]
             ELSE [g EXCEPT !.pc = "done", !.outcome = "no_channel"]
        ELSE [g EXCEPT !.pc = "followup"]

\* a mutant: the failed call is made once more
infer_failed_retry(i, f) ==
    IF f.infer_calls < 2 THEN [f EXCEPT !.infer_calls = @ + 1]
    ELSE [f EXCEPT !.pc = "done", !.outcome = "inference_error"]

\* ollama.chat raises: nothing catches it in digest_task or summarize_command
infer_failed(i, f) == [f EXCEPT !.pc = "done", !.outcome = "inference_error"]

\* a mutant: the digest is sent again
delivered_twice(i, f) ==
    LET g == [f EXCEPT !.sent = Append(@, [kind |-> "digest", body |-> f.digest_message])]
    IN  IF Len(f.sent) < 2 THEN g
        ELSE [g EXCEPT !.pc = "done", !.outcome = "sent"]

\* channel.send / interaction.followup.send has completed
delivered(i, f) ==
    [f EXCEPT !.sent = Append(@, [kind |-> "digest", body |-> f.digest_message]),
              !.pc = "done", !.outcome = "sent"]

\* ------------------------------------------------------------------------
\* The callers of collect_messages, from its return to their next await
\* ------------------------------------------------------------------------
\* digest_task, lines 135-139
task_after_collect(f) ==
    IF f.combined_text = <<>>
    THEN [f EXCEPT !.pc = "done", !.outcome = "empty"]
    ELSE [f EXCEPT !.pc = "inferring", !.infer_calls = @ + 1]

\* the keyword parameters of discord's InteractionResponse.send_message
SendMessageKeywords ==
    {"embed", "embeds", "file", "files", "view", "tts", "ephemeral",
     "allowed_mentions", "suppress_embeds", "silent", "delete_after", "poll"}

\* summarize_command, lines 162-166
command_after_collect(f) ==
    IF f.combined_text = <<>>
    THEN IF {"delete_after", "ephermal"} \subseteq SendMessageKeywords
         THEN [f EXCEPT !.sent = Append(@, [kind |-> "no_recent", body |-> <<>>]),
                        !.pc = "done", !.outcome = "empty"]
         ELSE [f EXCEPT !.pc = "done", !.outcome = "TypeError"]
    ELSE [f EXCEPT !.pc = "defer"]

\* lines 97-98, then the caller
after_collect(i, f) ==
    LET g == [f EXCEPT !.combined_text = join(f.aggregate_text)]
    IN  IF i = "task" THEN task_after_collect(g) ELSE command_after_collect(g)

\* the for loop of collect_messages goes on from channel k
advance(i, f, k) ==
    LET n == next_channel(k)
    IN  IF n <= Len(guild.text_channels)
        THEN [f EXCEPT !.pc = "history", !.ci = n, !.got = 0]
        ELSE after_collect(i, [f EXCEPT !.ci = n])

\* a mutant: one failing channel ends the collection
fetch_failed_abort(i, f) ==
    [f EXCEPT !.failed = @ \cup {f.ci}, !.pc = "done", !.outcome = "raised"]

\* except Exception: continue
fetch_failed(i, f) == advance(i, [f EXCEPT !.failed = @ \cup {f.ci}], f.ci + 1)

\* ------------------------------------------------------------------------
\* Actions
\* ------------------------------------------------------------------------
\* what ollama.chat may return as response["message"]["content"]
Replies == {<<>>, <<Spc>>, <<Spc, "s", Spc>>}

\* digest_task is called by its loop, up to its first await
TaskStart ==
    /\ ~Blocked
    /\ inv["task"].pc \in {"idle", "done"}
    /\ \E found \in BOOLEAN :
        inv' = [inv EXCEPT !["task"] =
                   IF ~found
                   THEN [Frame0 EXCEPT !.pc = "done", !.outcome = "no_guild"]
                   ELSE advance("task",
                                [Frame0 EXCEPT !.since = utcnow - DIGEST_INTERVAL_MINUTES],
                                1)]
    /\ UNCHANGED <<guild, CHANNEL_IDS, messages, questions, fpc>>

\* summarize_command is dispatched for an interaction, up to its first await
CommandStart(c) ==
    /\ ~Blocked
    /\ inv[c].pc \in {"idle", "done"}
    /\ inv' = [inv EXCEPT ![c] =
                  advance(c, [Frame0 EXCEPT !.since = utcnow - HourLookback], 1)]
    /\ UNCHANGED <<guild, CHANNEL_IDS, messages, questions, fpc>>

\* one history request returns; its messages go through the loop body
FetchBatch(i) ==
    /\ ~Blocked
    /\ inv[i].pc = "history"
    /\ LET f == inv[i]
           channel == guild.text_channels[f.ci]
           h == history(channel, f.since, HistoryLimit)
           batch == SubSeq(h, f.got + 1, Min(f.got + BatchSize, Len(h)))
           g == take([f EXCEPT !.got = f.got + Len(batch)], channel, batch, 1)
       IN  inv' = [inv EXCEPT ![i] =
                      IF Len(batch) = BatchSize /\ g.got < HistoryLimit
                      THEN g
                      ELSE advance(i, g, f.ci + 1)]
    /\ UNCHANGED <<guild, CHANNEL_IDS, messages, questions, fpc>>

\* one history request raises
FetchFail(i) ==
    /\ ~Blocked
    /\ inv[i].pc = "history"
    /\ inv' = [inv EXCEPT ![i] = fetch_failed(i, inv[i])]
    /\ UNCHANGED <<guild, CHANNEL_IDS, messages, questions, fpc>>

\* interaction.response.defer() completes or raises; then summarize_text is called
Defer(c) ==
    /\ ~Blocked
    /\ inv[c].pc = "defer"
    /\ \E ok \in BOOLEAN :
        inv' = [inv EXCEPT ![c] =
                   IF ok
                   THEN [@ EXCEPT !.sent = Append(@, [kind |-> "defer", body |-> <<>>]),
                                  !.pc = "inferring", !.infer_calls = @ + 1]
                   ELSE [@ EXCEPT !.pc = "done", !.outcome = "defer_failed"]]
    /\ UNCHANGED <<guild, CHANNEL_IDS, messages, questions, fpc>>

\* ollama.chat returns
InferReturn(i) ==
    /\ inv[i].pc = "inferring"
    /\ \E content \in Replies, found \in BOOLEAN :
        inv' = [inv EXCEPT ![i] = compose(i, inv[i], content, found)]
    /\ UNCHANGED <<guild, CHANNEL_IDS, messages, questions, fpc>>

\* ollama.chat raises
InferRaise(i) ==
    /\ inv[i].pc = "inferring"
    /\ inv' = [inv EXCEPT ![i] = infer_failed(i, inv[i])]
    /\ UNCHANGED <<guild, CHANNEL_IDS, messages, questions, fpc>>

\* channel.send(digest_message) completes or raises
Send ==
    /\ ~Blocked
    /\ inv["task"].pc = "send"
    /\ \E ok \in BOOLEAN :
        inv' = [inv EXCEPT !["task"] =
                   IF ok THEN delivered("task", @)
                   ELSE [@ EXCEPT !.pc = "done", !.outcome = "send_failed"]]
    /\ UNCHANGED <<guild, CHANNEL_IDS, messages, questions, fpc>>

\* interaction.followup.send(digest_message) completes or raises
Followup(c) ==
    /\ ~Blocked
    /\ inv[c].pc = "followup"
    /\ \E ok \in BOOLEAN :
        inv' = [inv EXCEPT ![c] =
                   IF ok THEN delivered(c, @)
                   ELSE [@ EXCEPT !.pc = "done", !.outcome = "send_failed"]]
    /\ UNCHANGED <<guild, CHANNEL_IDS, messages, questions, fpc>>

\* a direct call of find_unanswered_questions(messages)
FindCall ==
    /\ fpc = "call"
    /\ questions' = find_unanswered_questions(messages)
    /\ fpc' = "done"
    /\ UNCHANGED <<guild, CHANNEL_IDS, inv, messages>>

\* ------------------------------------------------------------------------
\* Guilds
\* ------------------------------------------------------------------------
Chan(id, msgs) == [id |-> id, name |-> id, msgs |-> msgs]

Guild(chs) == [id |-> 1, text_channels |-> chs]

\* three channels without messages
GuildEmpty == Guild(<<Chan(1, <<>>), Chan(2, <<>>), Chan(3, <<>>)>>)

\* six recent questions nobody replied to
GuildSix ==
    Guild(<<Chan(1, <<Msg(1, 1, FALSE, Question, New, NoRef),
                      Msg(2, 1, FALSE, Question, New, NoRef)>>),
            Chan(2, <<Msg(3, 2, FALSE, Question, New, NoRef),
                      Msg(4, 2, FALSE, Question, New, NoRef)>>),
            Chan(3, <<Msg(5, 3, FALSE, Question, New, NoRef),
                      Msg(6, 3, FALSE, Question, New, NoRef)>>)>>)

\* six questions older than an hour, then recent chat
GuildBacklog ==
    Guild(<<Chan(1, <<Msg(1, 1, FALSE, Question, Mid, NoRef),
                      Msg(2, 1, FALSE, Question, Mid, NoRef),
                      Msg(7, 1, FALSE, Plain, New, NoRef)>>),
            Chan(2, <<Msg(3, 2, FALSE, Question, Mid, NoRef),
                      Msg(4, 2, FALSE, Question, Mid, NoRef)>>),
            Chan(3, <<Msg(5, 3, FALSE, Question, Mid, NoRef),
                      Msg(6, 3, FALSE, Question, Mid, NoRef)>>)>>)

\* an answered question in one channel, an open one in the next
GuildAnswered ==
    Guild(<<Chan(1, <<Msg(1, 1, FALSE, Question, New, NoRef),
                      Msg(2, 1, FALSE, Plain, New, 1)>>),
            Chan(2, <<Msg(3, 2, FALSE, Question, New, NoRef)>>),
            Chan(3, <<>>)>>)

\* a bot's question, a question older than an hour, recent chat
GuildMixed ==
    Guild(<<Chan(1, <<Msg(1, 1, FALSE, Plain, Old, NoRef),
                      Msg(2, 1, TRUE, Question, New, NoRef)>>),
            Chan(2, <<Msg(3, 2, FALSE, Question, Mid, NoRef)>>),
            Chan(3, <<Msg(4, 3, FALSE, Plain, New, NoRef)>>)>>)

\* nothing but bot messages and old messages
GuildQuiet ==
    Guild(<<Chan(1, <<Msg(1, 1, TRUE, Question, New, NoRef)>>),
            Chan(2, <<Msg(2, 2, FALSE, Question, Old, NoRef)>>),
            Chan(3, <<>>)>>)

PipelineGuilds ==
    {GuildEmpty, GuildSix, GuildBacklog, GuildAnswered, GuildMixed, GuildQuiet}

\* the allow-list settings of the pipeline runs: unset, or two of the channels
PipelineLists == {<<>>, <<2, 3>>}

\* the guilds the collector is checked on: two channels, each with a
\* sequence of up to MaxChanLen messages by bots and users, the first old of
\* them older than an hour
ChannelContent(c, n, bots, old) ==
    [k \in 1..n |->
        Msg((c - 1) * (MaxChanLen + 1) + k, c, bots[k], Plain,
            IF k <= old THEN Mid ELSE New, NoRef)]

CollectLists == {<<>>, <<1>>, <<Blank, 2>>, <<Blank>>, <<2, 1>>}

\* the arguments find_unanswered_questions is checked on: every sequence of up
\* to MaxLen messages with distinct ids, alone or next to more open questions
\* than the digest shows
FreeInput(n, a) == [k \in 1..n |-> Msg(k, 1, a[k][1], a[k][2], New, a[k][3])]

OpenQuestions(n) ==
    [k \in 1..n |-> Msg(MaxLen + k, 1, FALSE, Question, New, NoRef)]

\* ------------------------------------------------------------------------
\* Specifications
\* ------------------------------------------------------------------------
\* the bot: both pipelines on one event loop
Init ==
    /\ guild \in PipelineGuilds
    /\ CHANNEL_IDS \in PipelineLists
    /\ inv = [i \in Invocations |-> Frame0]
    /\ messages = <<>>
    /\ questions = <<>>
    /\ fpc = "none"

Next ==
    \/ TaskStart
    \/ Send
    \/ \E c \in Commands : CommandStart(c) \/ Defer(c) \/ Followup(c)
    \/ \E i \in Invocations :
        FetchBatch(i) \/ FetchFail(i) \/ InferReturn(i) \/ InferRaise(i)

Spec == Init /\ [][Next]_vars

\* collect_messages alone, called by summarize_command
InitCollect ==
    /\ \E n1 \in 0..MaxChanLen, n2 \in 0..MaxChanLen :
        \E b1 \in [1..n1 -> BOOLEAN], b2 \in [1..n2 -> BOOLEAN],
           o1 \in 0..n1, o2 \in 0..n2 :
            guild = Guild(<<Chan(1, ChannelContent(1, n1, b1, o1)),
                            Chan(2, ChannelContent(2, n2, b2, o2))>>)
    /\ CHANNEL_IDS \in CollectLists
    /\ inv = [i \in Invocations |-> Frame0]
    /\ messages = <<>>
    /\ questions = <<>>
    /\ fpc = "none"

NextCollect ==
    \E c \in Commands : CommandStart(c) \/ FetchBatch(c) \/ FetchFail(c)

SpecCollect == InitCollect /\ [][NextCollect]_vars

\* find_unanswered_questions alone
InitFind ==
    /\ guild = GuildEmpty
    /\ CHANNEL_IDS = <<>>
    /\ inv = [i \in Invocations |-> Frame0]
    /\ \E n \in 0..MaxLen :
        \E a \in [1..n -> BOOLEAN \X Contents \X (0..MaxLen)] :
            \/ messages = FreeInput(n, a)
            \/ messages = FreeInput(n, a) \o OpenQuestions(MaxShown + 1)
            \/ messages = OpenQuestions(MaxShown + 1) \o FreeInput(n, a)
    /\ questions = <<>>
    /\ fpc = "call"

NextFind == FindCall

SpecFind == InitFind /\ [][NextFind]_vars

\* ------------------------------------------------------------------------
\* Properties
\* ------------------------------------------------------------------------
Digests(i) == {k \in 1..Len(inv[i].sent) : inv[i].sent[k].kind = "digest"}

\* collect_messages has returned to its caller
Returned(i) == inv[i].pc \notin {"idle", "history"} /\ inv[i].outcome # "no_guild"

\* the digest has been composed
Composed(i) ==
    \/ inv[i].pc \in {"send", "followup"}
    \/ inv[i].pc = "done" /\ inv[i].outcome \in {"sent", "send_failed", "no_channel"}

C2_CollectedEligible ==
    \A i \in Invocations :
        \A k \in 1..Len(inv[i].all_messages) :
            LET m == inv[i].all_messages[k]
            IN  /\ ~m.bot
                /\ m.created_at > inv[i].since
                /\ channels # <<>> => m.channel \in {channels[j] : j \in 1..Len(channels)}

\* a collection has returned messages of an allowed channel while the other
\* channel, not allowed, holds recent user messages, and the allowed channel
\* holds a bot message and a message older than the cutoff
C2_Witness ==
    \E i \in Invocations :
        /\ Returned(i)
        /\ inv[i].all_messages # <<>>
        /\ channels # <<>>
        /\ \E c \in 1..Len(guild.text_channels) :
            LET ch == guild.text_channels[c]
            IN  /\ ~InList(ch.id, channels)
                /\ \E k \in 1..Len(ch.msgs) :
                    ~ch.msgs[k].bot /\ ch.msgs[k].created_at > inv[i].since
        /\ \E c \in 1..Len(guild.text_channels) :
            LET ch == guild.text_channels[c]
            IN  /\ InList(ch.id, channels)
                /\ \E k \in 1..Len(ch.msgs) : ch.msgs[k].bot
                /\ \E k \in 1..Len(ch.msgs) : ch.msgs[k].created_at <= inv[i].since

\* what the channels from k on that are allowed and did not fail contribute
RECURSIVE ExpectedFrom(_, _)
ExpectedFrom(i, k) ==
    IF k > Len(guild.text_channels) THEN <<>>
    ELSE LET ch == guild.text_channels[k]
             allowed == channels = <<>> \/ InList(ch.id, channels)
             own == IF allowed /\ k \notin inv[i].failed
                    THEN SelectSeq(history(ch, inv[i].since, HistoryLimit),
                                   LAMBDA m : ~m.bot)
                    ELSE <<>>
         IN  own \o ExpectedFrom(i, k + 1)

\* C3: whichever history requests fail, collect_messages returns, and the
\* messages of its result that are from channels without a failed request
\* are, channel by channel in the guild's order, the user messages history
\* returned for the allowed ones among these channels.
C3_FailedChannelsSkipped ==
    \A i \in Invocations :
        /\ inv[i].outcome # "raised"
        /\ Returned(i) =>
            SelectSeq(inv[i].all_messages,
                      LAMBDA m : \A k \in inv[i].failed :
                                     guild.text_channels[k].id # m.channel)
                = ExpectedFrom(i, 1)

\* the first channel's history failed after it had returned a message, and
\* the result holds that message and then the second channel's messages
C3_Witness ==
    \E i \in Invocations :
        /\ Returned(i)
        /\ inv[i].failed = {1}
        /\ Len(inv[i].all_messages) >= 3
        /\ inv[i].all_messages[1].channel = 1
        /\ inv[i].all_messages[2].channel = 2

\* C4: in both pipelines the digest lists the first min(n, 5) of the n
\* unanswered questions, in their order, under the heading, and has no
\* heading when n = 0.
C4_FirstFiveListed ==
    \A i \in Invocations :
        Composed(i) =>
            LET n == Len(inv[i].unanswered)
                section == inv[i].digest_message.section
                m == IF n < 5 THEN n ELSE 5
            IN  /\ n = 0 => section = <<>>
                /\ n > 0 =>
                    /\ Len(section) = m + 1
                    /\ section[1] = Heading
                    /\ \A k \in 1..m :
                        /\ section[k + 1].url[3] = inv[i].unanswered[k].id
                        /\ section[k + 1].url[2] = inv[i].unanswered[k].channel
                        /\ section[k + 1].content = inv[i].unanswered[k].content

\* the periodic digest was sent with six questions found, and the command's
\* digest is composed with none
C4_Witness ==
    /\ inv["task"].outcome = "sent"
    /\ Len(inv["task"].unanswered) > MaxShown
    /\ Composed("cmd")
    /\ inv["cmd"].unanswered = <<>>

\* C5: a digest whose summary is empty is never sent.
C5_FailClosed ==
    \A i \in Invocations :
        \A k \in Digests(i) : inv[i].sent[k].body.summary # <<>>

\* C6: a command that collected no message has answered "no recent messages"
\* when it ends, and has not called the inference service.
C6_NoRecentAnswered ==
    \A c \in Commands :
        (inv[c].pc = "done" /\ Returned(c) /\ inv[c].all_messages = <<>>) =>
            /\ \E k \in 1..Len(inv[c].sent) : inv[c].sent[k].kind = "no_recent"
            /\ inv[c].infer_calls = 0

\* C7: a periodic cycle in which the inference call raised has sent nothing
\* and has made that call once.
C7_NoSendNoRetry ==
    inv["task"].outcome = "inference_error" =>
        /\ inv["task"].sent = <<>>
        /\ inv["task"].infer_calls = 1

\* a periodic cycle has ended by an inference error, with messages collected
C7_Witness ==
    /\ inv["task"].pc = "done"
    /\ inv["task"].outcome = "inference_error"
    /\ inv["task"].all_messages # <<>>

\* C8: a command in which the inference call raised has sent its requester a
\* failure response when it ends.
C8_FailureAnswered ==
    \A c \in Commands :
        (inv[c].pc = "done" /\ inv[c].outcome = "inference_error") =>
            \E k \in 1..Len(inv[c].sent) : inv[c].sent[k].kind = "failure"

\* C9: while an invocation waits for the inference reply, the event loop can
\* start a command that is not running.
C9_LoopFreeDuringInference ==
    \A i \in Invocations, c \in Commands :
        (inv[i].pc = "inferring" /\ inv[c].pc \in {"idle", "done"}) =>
            ENABLED CommandStart(c)

\* C10: an invocation sends at most one digest, and none when it ends by an
\* empty collection or an inference error.
C10_AtMostOneDigest ==
    \A i \in Invocations :
        /\ Cardinality(Digests(i)) <= 1
        /\ inv[i].outcome \in {"empty", "TypeError", "inference_error"} =>
            Digests(i) = {}

\* the periodic cycle has sent its digest and the command has ended by an
\* inference error
C10_Witness ==
    /\ inv["task"].outcome = "sent"
    /\ Cardinality(Digests("task")) = 1
    /\ inv["cmd"].pc = "done"
    /\ inv["cmd"].outcome = "inference_error"

====
